---------------------------- MODULE Spec2Model ----------------------------
(***************************************************************************)
(* A model of the daily-arxiv-vla scripts: the ledger crawler              *)
(* (scripts/arxiv_crawler.py), the summary passes                          *)
(* (scripts/generate_summaries.py, scripts/clear_summaries.py) and the     *)
(* site builder (scripts/build_site.py).                                   *)
(*                                                                         *)
(* Text is a sequence of characters.  A character is a one-symbol string;  *)
(* a few fixed multi-character literals of the sources that the regular    *)
(* expressions only ever match as a whole are one symbol each:             *)
(*   "endash" U+2013          "fullstop" U+3002                            *)
(*   "h"      http://         "P"  arxiv.org/abs/                          *)
(*   "DO" <details>  "DC" </details>  "SO" <summary>  "SC" </summary>      *)
(*   "L"  the label text      "PH" the placeholder text  "BR" <br>         *)
(*   "d"  a date YYYY-MM-DD      "H1".."H4" the four header labels         *)
(*   "bt" the backquote                                                    *)
(***************************************************************************)
EXTENDS Integers, Sequences, FiniteSets, TLC

VARIABLES
    text, fixed1, fixed2, rpc,   \* line-break recovery: input, first and second pass
    link, norm1, norm2, lpc,     \* link normalization: input, first and second pass
    rec, writer, row, cells, siteRecs, tpc
                                 \* table codec: a record, the function that writes its row,
                                 \* the row, and what the two parsers read back
    ,
    fileExists, fileLines,       \* papers.md: whether it exists, and its lines
    op, returned                 \* the last script that ran to completion, and what it returned
    ,
    cellIn, payloadOut, markdownOut, renderedOut, ppc,
                                 \* the site pipeline on one summary cell: the cell, what
                                 \* extract_details, auto_add_linebreaks and markdown_to_html give
    mdIn, mdLines, mdIdx, htmlLines, htmlRet, mpc,
                                 \* markdown_to_html: its argument, the locals of its main
                                 \* loop, and its return value
    recordsIn, dataOut, bpc,     \* build_data: its argument and its return value
    updLines, updDisk, updBody, updGen, updBatch, updIdx, success_count,
    updates_since_last_write, updRet, upc
                                 \* update_papers_md: the lines it read, papers.md on disk,
                                 \* body, what the generator does for each entry,
                                 \* batch_size, the place in entries_to_update, its two
                                 \* counters and its return value

recoverVars == <<text, fixed1, fixed2, rpc>>
linkVars == <<link, norm1, norm2, lpc>>
tableVars == <<rec, writer, row, cells, siteRecs, tpc>>
ledgerVars == <<fileExists, fileLines, op, returned>>
pipeVars == <<cellIn, payloadOut, markdownOut, renderedOut, ppc>>
renderVars == <<mdIn, mdLines, mdIdx, htmlLines, htmlRet, mpc>>
buildVars == <<recordsIn, dataOut, bpc>>
updateVars == <<updLines, updDisk, updBody, updGen, updBatch, updIdx, success_count,
                updates_since_last_write, updRet, upc>>
vars == <<text, fixed1, fixed2, rpc, link, norm1, norm2, lpc,
          rec, writer, row, cells, siteRecs, tpc, fileExists, fileLines, op, returned,
          cellIn, payloadOut, markdownOut, renderedOut, ppc,
          mdIn, mdLines, mdIdx, htmlLines, htmlRet, mpc, recordsIn, dataOut, bpc,
          updLines, updDisk, updBody, updGen, updBatch, updIdx, success_count,
          updates_since_last_write, updRet, upc>>

\* each specification below runs one part of the program and leaves the others idle
RecoverIdle == text = <<>> /\ fixed1 = <<>> /\ fixed2 = <<>> /\ rpc = "idle"
LinkIdle == link = <<>> /\ norm1 = <<>> /\ norm2 = <<>> /\ lpc = "idle"
TableIdle ==
    rec = <<>> /\ writer = "idle" /\ row = <<>> /\ cells = <<>> /\ siteRecs = <<>> /\ tpc = "idle"
LedgerIdle == fileExists = FALSE /\ fileLines = <<>> /\ op = "idle" /\ returned = <<>>
PipeIdle ==
    /\ cellIn = <<>> /\ payloadOut = <<>> /\ markdownOut = <<>>
    /\ renderedOut = <<>> /\ ppc = "idle"
RenderIdle ==
    /\ mdIn = <<>> /\ mdLines = <<>> /\ mdIdx = 0
    /\ htmlLines = <<>> /\ htmlRet = <<>> /\ mpc = "idle"
BuildIdle == recordsIn = <<>> /\ dataOut = <<>> /\ bpc = "idle"
UpdateIdle ==
    /\ updLines = <<>> /\ updDisk = <<>> /\ updBody = <<>> /\ updGen = <<>> /\ updBatch = 0
    /\ updIdx = 0 /\ success_count = 0 /\ updates_since_last_write = 0 /\ updRet = <<>>
    /\ upc = "idle"

----------------------------------------------------------------------------
(* Bounds *)

\* longest text over RecoverChars
MaxTextLen == 4

\* longest text over LightChars
MaxLightLen == 7

\* longest link tail after the host
MaxTailLen == 7

\* longest title of a record
MaxTitleLen == 3

\* most results of one search
MaxFound == 2

\* most lines of papers.md
MaxLines == 5

\* longest cell over CellChars
MaxCellLen == 4

\* most lines of a text that is rendered
MaxMdLines == 4

\* most '#' characters at the start of a line
MaxHashes == 8

----------------------------------------------------------------------------
(* Characters and character classes of Python's re *)

NL == "\n"

\* \s
Space == {" ", NL}

\* \d
Digit == {"1", "2"}

\* v under re.IGNORECASE
VersionMark == {"v", "V"}

Hash == {"#"}

\* [-endash]
Dash == {"-", "endash"}

\* the full-width sentence punctuation of build_site.py line 135
SentenceEnd == {"fullstop"}

RECURSIVE Strs(_, _)
Strs(A, n) == IF n = 0 THEN {<<>>}
              ELSE LET shorter == Strs(A, n - 1)
                   IN  shorter \cup {Append(t, c) : t \in {u \in shorter : Len(u) = n - 1}, c \in A}

At(s, i) == IF i >= 1 /\ i <= Len(s) THEN s[i] ELSE ""

\* the index after the longest run of characters of C that starts at i
RECURSIVE RunEnd(_, _, _)
RunEnd(s, i, C) == IF i <= Len(s) /\ s[i] \in C THEN RunEnd(s, i + 1, C) ELSE i

Tail3(s, i) == IF i > Len(s) THEN <<>> ELSE SubSeq(s, i, Len(s))

HasNewline(s) == \E i \in 1..Len(s) : s[i] = NL

Least(S) == CHOOSE j \in S : \A k \in S : j <= k
Greatest(S) == CHOOSE j \in S : \A k \in S : k <= j

\* str.strip(chars)
StripChars(s, C) ==
    LET keep == {j \in 1..Len(s) : s[j] \notin C}
    IN  IF keep = {} THEN <<>> ELSE SubSeq(s, Least(keep), Greatest(keep))

\* str.strip()
Strip(s) == StripChars(s, Space)

\* str.split(c)
RECURSIVE Split(_, _)
Split(s, c) ==
    LET hits == {j \in 1..Len(s) : s[j] = c}
    IN  IF hits = {} THEN <<s>>
        ELSE <<SubSeq(s, 1, Least(hits) - 1)>> \o Split(Tail3(s, Least(hits) + 1), c)

\* c.join(parts)
RECURSIVE Join(_, _)
Join(parts, c) ==
    IF parts = <<>> THEN <<>>
    ELSE IF Len(parts) = 1 THEN parts[1]
    ELSE parts[1] \o <<c>> \o Join(Tail(parts), c)

\* str.replace(c, r) for a single character c
RECURSIVE Replace(_, _, _)
Replace(s, c, r) ==
    IF s = <<>> THEN <<>>
    ELSE (IF Head(s) = c THEN r ELSE <<Head(s)>>) \o Replace(Tail(s), c, r)

Map(s, F(_)) == [i \in 1..Len(s) |-> F(s[i])]

----------------------------------------------------------------------------
(* auto_add_linebreaks, build_site.py lines 86-140 *)

\* ([^\n\s#])\s*(?=#+\s) at i: the index after the match, 0 when there is none
HeadingBreakMatch(s, i) ==
    LET j == RunEnd(s, i + 1, Space)
        k == RunEnd(s, j, Hash)
    IN  IF /\ i <= Len(s)
           /\ s[i] \notin (Space \cup Hash)
           /\ k > j
           /\ At(s, k) \in Space
        THEN j ELSE 0

\* re.sub(r"([^\n\s#])\s*(?=#+\s)", r"\1\n", t)
RECURSIVE SubHeadingBreak(_, _)
SubHeadingBreak(s, i) ==
    IF i > Len(s) THEN <<>>
    ELSE LET e == HeadingBreakMatch(s, i)
         IN  IF e # 0 THEN <<s[i], NL>> \o SubHeadingBreak(s, e)
             ELSE <<s[i]>> \o SubHeadingBreak(s, i + 1)

IsRule(s, j) == At(s, j) = "-" /\ At(s, j + 1) = "-" /\ At(s, j + 2) = "-"

\* ([^\n])\s*---\s*([^\n]) at i: <<index of group 2, index after the match>>, <<0, 0>> when none.
\* The second \s* is greedy and gives characters back until [^\n] can match.
LightRuleMatch(s, i) ==
    LET j == RunEnd(s, i + 1, Space)
        k == RunEnd(s, j + 3, Space)
        back == {t \in (j + 3)..(k - 1) : s[t] # NL}
    IN  IF ~(i <= Len(s) /\ s[i] # NL /\ IsRule(s, j)) THEN <<0, 0>>
        ELSE IF k <= Len(s) THEN <<k, k + 1>>
        ELSE IF back # {}
             THEN LET t == CHOOSE u \in back : \A v \in back : v <= u IN <<t, t + 1>>
        ELSE <<0, 0>>

\* re.sub(r"([^\n])\s*---\s*([^\n])", r"\1\n---\n\2", t)
RECURSIVE SubLightRule(_, _)
SubLightRule(s, i) ==
    IF i > Len(s) THEN <<>>
    ELSE LET m == LightRuleMatch(s, i)
         IN  IF m[2] # 0
             THEN <<s[i], NL, "-", "-", "-", NL, s[m[1]]>> \o SubLightRule(s, m[2])
             ELSE <<s[i]>> \o SubLightRule(s, i + 1)

\* re.sub(r"\n{3,}", "\n\n", t)
RECURSIVE SubCollapseNewlines(_, _)
SubCollapseNewlines(s, i) ==
    IF i > Len(s) THEN <<>>
    ELSE LET e == RunEnd(s, i, {NL})
         IN  IF e - i >= 3 THEN <<NL, NL>> \o SubCollapseNewlines(s, e)
             ELSE <<s[i]>> \o SubCollapseNewlines(s, i + 1)

\* if not t.startswith("#"): t = re.sub(r"^\s*(#+\s+)", r"\1", t)
LeadingHeading(s) ==
    LET j == RunEnd(s, 1, Space)
        k == RunEnd(s, j, Hash)
        m == RunEnd(s, k, Space)
    IN  IF At(s, 1) # "#" /\ k > j /\ m > k THEN Tail3(s, j) ELSE s

\* \s*---\s* at i: the index after the match, 0 when there is none
FullRuleMatch(s, i) ==
    LET j == RunEnd(s, i, Space)
    IN  IF IsRule(s, j) THEN RunEnd(s, j + 3, Space) ELSE 0

\* re.sub(r"\s*---\s*", "\n---\n", t)
RECURSIVE SubFullRule(_, _)
SubFullRule(s, i) ==
    IF i > Len(s) THEN <<>>
    ELSE LET e == FullRuleMatch(s, i)
         IN  IF e # 0 THEN <<NL, "-", "-", "-", NL>> \o SubFullRule(s, e)
             ELSE <<s[i]>> \o SubFullRule(s, i + 1)

\* \s+[-endash]\s+ at i: the index after the match, 0 when there is none
BulletMatch(s, i) ==
    LET j == RunEnd(s, i, Space)
        k == RunEnd(s, j + 1, Space)
    IN  IF j > i /\ At(s, j) \in Dash /\ k > j + 1 THEN k ELSE 0

\* re.sub(r"\s+[-endash]\s+", "\n- ", t)
RECURSIVE SubBullet(_, _)
SubBullet(s, i) ==
    IF i > Len(s) THEN <<>>
    ELSE LET e == BulletMatch(s, i)
         IN  IF e # 0 THEN <<NL, "-", " ">> \o SubBullet(s, e)
             ELSE <<s[i]>> \o SubBullet(s, i + 1)

\* (?<!\n)(?<!\*\*)(\s*)(\d+\.\s+) at i: <<start of group 2, index after the match>>
NumberedMatch(s, i) ==
    LET j == RunEnd(s, i, Space)
        k == RunEnd(s, j, Digit)
        m == RunEnd(s, k + 1, Space)
    IN  IF /\ At(s, i - 1) # NL
           /\ ~(At(s, i - 2) = "*" /\ At(s, i - 1) = "*")
           /\ k > j
           /\ At(s, k) = "."
           /\ m > k + 1
        THEN <<j, m>> ELSE <<0, 0>>

\* re.sub(r"(?<!\n)(?<!\*\*)(\s*)(\d+\.\s+)", lambda m: "\n" + m.group(2), t)
RECURSIVE SubNumbered(_, _)
SubNumbered(s, i) ==
    IF i > Len(s) THEN <<>>
    ELSE LET m == NumberedMatch(s, i)
         IN  IF m[2] # 0 THEN <<NL>> \o SubSeq(s, m[1], m[2] - 1) \o SubNumbered(s, m[2])
             ELSE <<s[i]>> \o SubNumbered(s, i + 1)

\* the lazy (.+?)\*\* with group 1 starting at q: the index of the closing **
\* (0 when a newline or the end of the text comes first)
RECURSIVE BoldClose(_, _)
BoldClose(s, q) ==
    IF q > Len(s) \/ s[q] = NL THEN 0
    ELSE IF At(s, q + 1) = "*" /\ At(s, q + 2) = "*" THEN q + 1
    ELSE BoldClose(s, q + 1)

\* \s+-\s+\*\*(.+?)\*\* at i: <<start of group 1, index of the closing **>>
BoldItemMatch(s, i) ==
    LET j == RunEnd(s, i, Space)
        k == RunEnd(s, j + 1, Space)
        c == BoldClose(s, k + 2)
    IN  IF /\ j > i
           /\ At(s, j) = "-"
           /\ k > j + 1
           /\ At(s, k) = "*" /\ At(s, k + 1) = "*"
           /\ c # 0
        THEN <<k + 2, c>> ELSE <<0, 0>>

\* re.sub(r"\s+-\s+\*\*(.+?)\*\*", lambda m: "\n- **" + m.group(1) + "**", t)
RECURSIVE SubBoldItem(_, _)
SubBoldItem(s, i) ==
    IF i > Len(s) THEN <<>>
    ELSE LET m == BoldItemMatch(s, i)
         IN  IF m[2] # 0
             THEN <<NL, "-", " ", "*", "*">> \o SubSeq(s, m[1], m[2] - 1) \o <<"*", "*">>
                  \o SubBoldItem(s, m[2] + 2)
             ELSE <<s[i]>> \o SubBoldItem(s, i + 1)

\* ([fullstop...])\s*(#+\s+) at i: <<start of group 2, index after the match>>
SentenceHeadingMatch(s, i) ==
    LET j == RunEnd(s, i + 1, Space)
        k == RunEnd(s, j, Hash)
        m == RunEnd(s, k, Space)
    IN  IF At(s, i) \in SentenceEnd /\ k > j /\ m > k THEN <<j, m>> ELSE <<0, 0>>

\* re.sub(r"([fullstop...])\s*(#+\s+)", r"\1\n\2", t)
RECURSIVE SubSentenceHeading(_, _)
SubSentenceHeading(s, i) ==
    IF i > Len(s) THEN <<>>
    ELSE LET m == SentenceHeadingMatch(s, i)
         IN  IF m[2] # 0
             THEN <<s[i], NL>> \o SubSeq(s, m[1], m[2] - 1) \o SubSentenceHeading(s, m[2])
             ELSE <<s[i]>> \o SubSentenceHeading(s, i + 1)

\* the light branch with the bullet rule of the full branch left in
LightBranchWithBullets(t) ==
    SubCollapseNewlines(SubBullet(SubLightRule(SubHeadingBreak(t, 1), 1), 1), 1)

\* the has_linebreaks branch, lines 102-111
LightBranch(t) ==
    SubCollapseNewlines(SubLightRule(SubHeadingBreak(t, 1), 1), 1)

\* the else branch, lines 112-138
FullBranch(t) ==
    LET t1 == LeadingHeading(SubHeadingBreak(t, 1))
        t2 == SubFullRule(t1, 1)
        t3 == SubBullet(t2, 1)
        t4 == SubNumbered(t3, 1)
        t5 == SubBoldItem(t4, 1)
        t6 == SubSentenceHeading(t5, 1)
    IN  SubCollapseNewlines(t6, 1)

auto_add_linebreaks(t) ==
    Strip(IF HasNewline(t) THEN LightBranch(t) ELSE FullBranch(t))

----------------------------------------------------------------------------
(* _normalize_link, arxiv_crawler.py lines 85-98 *)

\* (arxiv\.org/abs/(\d+\.\d+))v\d+ at i: <<index of the v, index after the match>>
VersionMatch(s, i) ==
    LET a == RunEnd(s, i + 1, Digit)
        b == RunEnd(s, a + 1, Digit)
        e == RunEnd(s, b + 1, Digit)
    IN  IF /\ At(s, i) = "P"
           /\ a > i + 1
           /\ At(s, a) = "."
           /\ b > a + 1
           /\ At(s, b) \in VersionMark
           /\ e > b + 1
        THEN <<b, e>> ELSE <<0, 0>>

\* re.sub(r"(arxiv\.org/abs/(\d+\.\d+))v\d+", r"\1", link, flags=re.IGNORECASE)
RECURSIVE SubVersion(_, _)
SubVersion(s, i) ==
    IF i > Len(s) THEN <<>>
    ELSE LET m == VersionMatch(s, i)
         IN  IF m[2] # 0 THEN SubSeq(s, i, m[1] - 1) \o SubVersion(s, m[2])
             ELSE <<s[i]>> \o SubVersion(s, i + 1)

_normalize_link(s) == Strip(SubVersion(Strip(s), 1))

----------------------------------------------------------------------------
(* Link normalization applied twice to every link of LinkInputs *)

LinkLeads == {<<>>, <<"P">>, <<" ", "h", "P">>, <<"x", "P">>}

LinkTailChars == {"1", ".", "v", " "}

LinkInputs == {lead \o tail : lead \in LinkLeads, tail \in Strs(LinkTailChars, MaxTailLen)}

LinkInit ==
    /\ link \in LinkInputs
    /\ norm1 = <<>>
    /\ norm2 = <<>>
    /\ lpc = "input"

\* normalized_link = self._normalize_link(r.entry_id)
Normalize ==
    /\ lpc = "input"
    /\ norm1' = _normalize_link(link)
    /\ lpc' = "normalized"
    /\ UNCHANGED <<link, norm2, recoverVars, tableVars, ledgerVars, pipeVars, renderVars, buildVars, updateVars>>

\* _load_existing_links normalizes the stored, already normalized link again
NormalizeAgain ==
    /\ lpc = "normalized"
    /\ norm2' = _normalize_link(norm1)
    /\ lpc' = "renormalized"
    /\ UNCHANGED <<link, norm1, recoverVars, tableVars, ledgerVars, pipeVars, renderVars, buildVars, updateVars>>

LinkNext == Normalize \/ NormalizeAgain

\* only this part of the program runs
LinkStart == LinkInit /\ RecoverIdle /\ TableIdle /\ LedgerIdle
    /\ PipeIdle /\ RenderIdle /\ BuildIdle /\ UpdateIdle

SpecLink == LinkStart /\ [][LinkNext]_vars

----------------------------------------------------------------------------
(* The table codec: generate_summaries.py lines 46-80 and 188-205,              *)
(* clear_summaries.py lines 20-61, arxiv_crawler.py lines 100-157,              *)
(* build_site.py lines 40-83                                                    *)

Rule3 == <<"-", "-", "-">>

\* "<details><summary>...</summary>placeholder</details>"
default_summary_cell == <<"DO", "SO", "L", "SC", "PH", "DC">>

\* "placeholder" in cell
is_placeholder_summary(cell) == \E i \in 1..Len(cell) : cell[i] = "PH"

wrap_in_details(summary_text) == <<"DO", "SO", "L", "SC">> \o summary_text \o <<"DC">>

\* title.replace("|", "\\|")
EscapePipes(s) == Replace(s, "|", <<"\\", "|">>)

\* the same function in generate_summaries.py and clear_summaries.py
parse_table_line(line) ==
    SelectSeq(Map(Split(Strip(line), "|"), Strip), LAMBDA p : p # <<>> /\ p # Rule3)

\* the same function in generate_summaries.py and clear_summaries.py
rebuild_line(date_str, title, lnk, summary_html) ==
    <<"|", " ">> \o date_str \o <<" ", "|", " ">> \o EscapePipes(title) \o <<" ", "|", " ">>
        \o lnk \o <<" ", "|", " ">> \o EscapePipes(summary_html) \o <<" ", "|", NL>>

\* r is an arxiv.Result: published (<<>> when it is no datetime), title, entry_id
_format_row(r) ==
    <<"|", " ">> \o r.published \o <<" ", "|", " ">> \o Strip(EscapePipes(r.title))
        \o <<" ", "|", " ">> \o _normalize_link(r.entry_id) \o <<" ", "|", " ">>
        \o default_summary_cell \o <<" ", "|", NL>>

\* re.search(r"<details>([\s\S]*?)</details>", cell): <<index of the opening tag,
\* index of the closing tag>>, <<0, 0>> when there is no match
DetailsMatch(cell) ==
    LET opens == {i \in 1..Len(cell) : cell[i] = "DO" /\ \E j \in (i + 1)..Len(cell) : cell[j] = "DC"}
    IN  IF opens = {} THEN <<0, 0>>
        ELSE LET i == Least(opens)
             IN  <<i, Least({j \in (i + 1)..Len(cell) : cell[j] = "DC"})>>

\* re.sub(r"<summary>[\s\S]*?</summary>", "", content)
RECURSIVE SubSummary(_, _)
SubSummary(s, i) ==
    IF i > Len(s) THEN <<>>
    ELSE LET closes == {j \in (i + 1)..Len(s) : s[j] = "SC"}
         IN  IF s[i] = "SO" /\ closes # {} THEN SubSummary(s, Least(closes) + 1)
             ELSE <<s[i]>> \o SubSummary(s, i + 1)

\* the three spellings of the line-break marker
BreakMarks == {"BR", "BRS", "BRSS"}

\* a variant that knows the bare spelling of the marker only
BreaksBareOnly(s) == [i \in 1..Len(s) |-> IF s[i] = "BR" THEN NL ELSE s[i]]

\* content.replace("<br>", "\n").replace("<br/>", "\n").replace("<br />", "\n")
BreaksToNewlines(s) == [i \in 1..Len(s) |-> IF s[i] \in BreakMarks THEN NL ELSE s[i]]

extract_details(cell_html) ==
    LET m == DetailsMatch(cell_html)
        content == IF m[2] # 0 THEN SubSeq(cell_html, m[1] + 1, m[2] - 1) ELSE cell_html
    IN  Strip(BreaksToNewlines(SubSummary(content, 1)))

\* one line of md_text.splitlines(): the line without its line end
LineText(line) == IF line # <<>> /\ line[Len(line)] = NL THEN SubSeq(line, 1, Len(line) - 1) ELSE line

\* the loop body of parse_markdown_table for one line: a sequence of zero or one record
SiteRecord(line) ==
    LET parts == Map(Split(StripChars(Strip(line), {"|"}), "|"), Strip)
    IN  IF At(Strip(line), 1) # "|" \/ Len(parts) < 4 THEN <<>>
        ELSE <<[date |-> parts[1], title |-> parts[2], link |-> parts[3],
                details_raw |-> extract_details(Strip(Join(SubSeq(parts, 4, Len(parts)), "|")))]>>

RECURSIVE SiteRecords(_)
SiteRecords(lines) ==
    IF lines = <<>> THEN <<>> ELSE SiteRecord(Head(lines)) \o SiteRecords(Tail(lines))

\* lines are the lines of md_text
parse_markdown_table(lines) ==
    LET ls == SelectSeq(Map(lines, LineText), LAMBDA l : Strip(l) # <<>>)
    IN  IF Len(ls) < 3 THEN <<>> ELSE SiteRecords(SubSeq(ls, 3, Len(ls)))

four_header == <<"|", " ", "H1", " ", "|", " ", "H2", " ", "|", " ", "H3", " ", "|", " ", "H4", " ", "|", NL>>

four_sep == <<"|", " ">> \o Rule3 \o <<" ", "|", " ">> \o Rule3 \o <<" ", "|", " ">> \o Rule3
                \o <<" ", "|", " ">> \o Rule3 \o <<" ", "|", NL>>

----------------------------------------------------------------------------
(* markdown_to_html and build_data, build_site.py lines 143-255 *)
(* The tags the renderer writes are one symbol each, spelled as written.   *)

\* the index after the longest run of characters other than c that starts at i
RECURSIVE RunEndNot(_, _, _)
RunEndNot(s, i, c) == IF i <= Len(s) /\ s[i] # c THEN RunEndNot(s, i + 1, c) ELSE i

\* str.rstrip()
RStrip(s) ==
    LET keep == {j \in 1..Len(s) : s[j] \notin Space}
    IN  IF keep = {} THEN <<>> ELSE SubSeq(s, 1, Greatest(keep))

\* str.splitlines()
SplitLines(s) ==
    IF s = <<>> THEN <<>>
    ELSE LET parts == Split(s, NL)
         IN  IF s[Len(s)] = NL THEN SubSeq(parts, 1, Len(parts) - 1) ELSE parts

\* re.sub(r"`([^`]+)`", r"<code>\1</code>", s)
RECURSIVE SubCode(_, _)
SubCode(s, i) ==
    IF i > Len(s) THEN <<>>
    ELSE LET e == RunEndNot(s, i + 1, "bt")
         IN  IF s[i] = "bt" /\ e > i + 1 /\ At(s, e) = "bt"
             THEN <<"<code>">> \o SubSeq(s, i + 1, e - 1) \o <<"</code>">> \o SubCode(s, e + 1)
             ELSE <<s[i]>> \o SubCode(s, i + 1)

\* re.sub(r"\*\*([^*]+)\*\*", r"<strong>\1</strong>", s)
RECURSIVE SubStrong(_, _)
SubStrong(s, i) ==
    IF i > Len(s) THEN <<>>
    ELSE LET e == RunEndNot(s, i + 2, "*")
         IN  IF /\ s[i] = "*" /\ At(s, i + 1) = "*"
                /\ e > i + 2 /\ At(s, e) = "*" /\ At(s, e + 1) = "*"
             THEN <<"<strong>">> \o SubSeq(s, i + 2, e - 1) \o <<"</strong>">>
                      \o SubStrong(s, e + 2)
             ELSE <<s[i]>> \o SubStrong(s, i + 1)

\* re.sub(r"\[([^\]]+)\]\(([^)]+)\)", r"<a href=\"\2\" target=... rel=...>\1</a>", s):
\* the template is a raw string, so each \" of it is written out as a backslash and a quote
RECURSIVE SubAnchor(_, _)
SubAnchor(s, i) ==
    IF i > Len(s) THEN <<>>
    ELSE LET e == RunEndNot(s, i + 1, "]")
             f == RunEndNot(s, e + 2, ")")
         IN  IF /\ s[i] = "[" /\ e > i + 1 /\ At(s, e) = "]" /\ At(s, e + 1) = "("
                /\ f > e + 2 /\ At(s, f) = ")"
             THEN <<"<a href=\\\"">> \o SubSeq(s, e + 2, f - 1)
                      \o <<"\\\" target=\\\"_blank\\\" rel=\\\"noopener noreferrer\\\">">>
                      \o SubSeq(s, i + 1, e - 1) \o <<"</a>">> \o SubAnchor(s, f + 1)
             ELSE <<s[i]>> \o SubAnchor(s, i + 1)

render_inline(s) == SubAnchor(SubStrong(SubCode(s, 1), 1), 1)

\* len(title_match.group(1)) for ^(#{1,6})\s+(.+)$, 0 when the line does not match
TitleLevel(line) ==
    LET n == RunEnd(line, 1, Hash) - 1
    IN  IF n >= 1 /\ n <= 6 /\ At(line, n + 1) \in Space /\ Len(line) >= n + 2 THEN n ELSE 0

\* a variant: level 2 opens without the section-title class
TitleOpenNoClass(n) ==
    IF n = 1 THEN "<h1>" ELSE IF n = 2 THEN "<h2>" ELSE IF n = 3 THEN "<h3>" ELSE "<h4>"

\* min(level, 4), and the section-title class on level 2
TitleOpen(n) ==
    IF n = 1 THEN "<h1>" ELSE IF n = 2 THEN "<h2 class=\"section-title\">"
    ELSE IF n = 3 THEN "<h3>" ELSE "<h4>"

TitleClose(n) ==
    IF n = 1 THEN "</h1>" ELSE IF n = 2 THEN "</h2>" ELSE IF n = 3 THEN "</h3>" ELSE "</h4>"

\* the index after the marker of a list item, 0 when the line is no item of that kind:
\* ^[-*]\s+ for "ul", ^\d+\.\s+ for "ol"
ItemMatch(kind, line) ==
    LET e == RunEnd(line, 1, Digit)
        m == IF kind = "ul" THEN (IF At(line, 1) \in {"-", "*"} THEN 2 ELSE 0)
             ELSE (IF e > 1 /\ At(line, e) = "." THEN e + 1 ELSE 0)
    IN  IF m # 0 /\ At(line, m) \in Space THEN RunEnd(line, m, Space) ELSE 0

\* a variant: the inner loop takes one item only
ListEndOne(kind, lines, i) == i + 1

\* a variant: the inner loop takes no line
ListEndStuck(kind, lines, i) == i

\* the inner while loop of a list: the index of the first line that is no item
RECURSIVE ListEnd(_, _, _)
ListEnd(kind, lines, i) ==
    IF i <= Len(lines) /\ ItemMatch(kind, RStrip(lines[i])) # 0
    THEN ListEnd(kind, lines, i + 1) ELSE i

RECURSIVE ListItems(_, _, _, _)
ListItems(kind, lines, i, e) ==
    IF i >= e THEN <<>>
    ELSE LET curr_line == RStrip(lines[i])
         IN  <<"<li>">> \o render_inline(Strip(Tail3(curr_line, ItemMatch(kind, curr_line))))
                 \o <<"</li>">> \o ListItems(kind, lines, i + 1, e)

\* the main while loop from line i on: html_lines
RECURSIVE HtmlLines(_, _)
HtmlLines(lines, i) ==
    IF i > Len(lines) THEN <<>>
    ELSE LET line == RStrip(lines[i])
             level == TitleLevel(line)
             kind == IF ItemMatch("ul", line) # 0 THEN "ul" ELSE "ol"
             e == ListEnd(kind, lines, i)
         IN  IF line = <<>> THEN <<<<>>>> \o HtmlLines(lines, i + 1)
             ELSE IF level # 0
             THEN <<<<TitleOpen(level)>> \o render_inline(Strip(Tail3(line, level + 2)))
                        \o <<TitleClose(level)>>>> \o HtmlLines(lines, i + 1)
             ELSE IF Strip(line) = Rule3 THEN <<<<"<hr/>">>>> \o HtmlLines(lines, i + 1)
             ELSE IF ItemMatch("ul", line) # 0
             THEN <<<<"<ul>">> \o ListItems(kind, lines, i, e) \o <<"</ul>">>>>
                      \o HtmlLines(lines, e)
             ELSE IF ItemMatch("ol", line) # 0
             THEN <<<<"<ol>">> \o ListItems(kind, lines, i, e) \o <<"</ol>">>>>
                      \o HtmlLines(lines, e)
             ELSE <<<<"<p>">> \o render_inline(line) \o <<"</p>">>>> \o HtmlLines(lines, i + 1)

\* a variant of the last loop that keeps every blank entry
MergeBlankKeepAll(html_lines, prev_blank) == html_lines

\* the last loop: adjacent blank lines are merged
RECURSIVE MergeBlank(_, _)
MergeBlank(html_lines, prev_blank) ==
    IF html_lines = <<>> THEN <<>>
    ELSE LET h == Head(html_lines)
         IN  (IF h = <<>> /\ prev_blank THEN <<>> ELSE <<h>>)
                 \o MergeBlank(Tail(html_lines), h = <<>>)

markdown_to_html(md) == Strip(Join(MergeBlank(HtmlLines(SplitLines(md), 1), FALSE), NL))

\* a variant: a record equal to the one before it is left out
build_data_dropping(records) ==
    LET kept == IF Len(records) >= 2 /\ records[1] = records[2] THEN Tail(records) ELSE records
    IN  [k \in 1..Len(kept) |->
            LET fixed == auto_add_linebreaks(kept[k].details_raw)
            IN  [date |-> kept[k].date, title |-> kept[k].title, link |-> kept[k].link,
                 summary_markdown |-> fixed, summary_html |-> markdown_to_html(fixed)]]

build_data(records) ==
    [k \in 1..Len(records) |->
        LET fixed == auto_add_linebreaks(records[k].details_raw)
        IN  [date |-> records[k].date, title |-> records[k].title, link |-> records[k].link,
             summary_markdown |-> fixed, summary_html |-> markdown_to_html(fixed)]]

----------------------------------------------------------------------------
(* The crawler, arxiv_crawler.py lines 71-83 and 108-251 *)

_ALLOWED_PRIMARY_CATEGORIES == {"cs.CV", "cs.AI", "cs.CL", "cs.LG", "cs.MM", "cs.RO"}

_filter_categories(results) ==
    SelectSeq(results, LAMBDA r : r.primary_category \in _ALLOWED_PRIMARY_CATEGORIES)

\* the papers.md state: [exists, lines]
\* _ensure_md_header writes the two header lines only when the file does not exist
_ensure_md_header(f) ==
    IF ~f.exists THEN [exists |-> TRUE, lines |-> <<four_header, four_sep>>] ELSE f

\* [\w\-\.\/], over the characters of the model
LinkTailClass ==
    Digit \cup VersionMark \cup {".", "-", "a", "x", "P", "d", "PH", "L", "H1", "H2", "H3", "H4"}

\* link_pattern.findall(line), each match normalized: https?://arxiv\.org/abs/[\w\-\.\/]+
RECURSIVE LineLinks(_, _)
LineLinks(s, i) ==
    IF i > Len(s) THEN {}
    ELSE LET e == RunEnd(s, i + 2, LinkTailClass)
         IN  IF s[i] = "h" /\ At(s, i + 1) = "P" /\ e > i + 2
             THEN {_normalize_link(SubSeq(s, i, e - 1))} \cup LineLinks(s, e)
             ELSE LineLinks(s, i + 1)

_load_existing_links(f) ==
    IF ~f.exists THEN {} ELSE UNION {LineLinks(f.lines[k], 1) : k \in 1..Len(f.lines)}

_append_rows(f0, rows) ==
    LET f == _ensure_md_header(f0)
        insert_idx == IF Len(f.lines) >= 2 THEN 2 ELSE Len(f.lines)
    IN  [exists |-> TRUE,
         lines |-> SubSeq(f.lines, 1, insert_idx) \o rows
                       \o SubSeq(f.lines, insert_idx + 1, Len(f.lines))]

\* the rows of the results whose normalized link is not in existing
RECURSIVE NewRows(_, _)
NewRows(results, existing) ==
    IF results = <<>> THEN <<>>
    ELSE (IF _normalize_link(Head(results).entry_id) \in existing THEN <<>>
          ELSE <<_format_row(Head(results))>>)
         \o NewRows(Tail(results), existing)

\* initialize and run_daily have the same body; found is what _search returned.
\* The result is the new papers.md state and the returned count.
run_daily(f0, found) ==
    LET f == _ensure_md_header(f0)
        rows == NewRows(_filter_categories(found), _load_existing_links(f))
    IN  [file |-> IF rows # <<>> THEN _append_rows(f, rows) ELSE f, count |-> Len(rows)]

initialize(f0, found) == run_daily(f0, found)

----------------------------------------------------------------------------
(* update_papers_md, generate_summaries.py lines 208-285 *)

\* the (idx, date_str, title, link) tuples of the rows that still hold the placeholder
RECURSIVE EntriesToUpdate(_, _)
EntriesToUpdate(body, idx) ==
    IF idx > Len(body) THEN <<>>
    ELSE LET line == body[idx]
             cs == parse_table_line(line)
         IN  (IF At(Strip(line), 1) = "|" /\ Len(cs) = 4 /\ is_placeholder_summary(cs[4])
              THEN <<[idx |-> idx, date_str |-> cs[1], title |-> cs[2], link |-> cs[3]]>>
              ELSE <<>>)
             \o EntriesToUpdate(body, idx + 1)

\* The for loop over entries_to_update from entry k on.  gen[k] is what
\* generate_summary_for_link does for entry k: [raised, text], the text <<>> for an
\* empty summary.  st is [body, success_count, updates_since_last_write, disk].
RECURSIVE UpdateLoop(_, _, _, _, _, _)
UpdateLoop(header, entries, gen, batch_size, k, st) ==
    IF k > Len(entries) THEN st
    ELSE IF gen[k].raised \/ gen[k].text = <<>>
         THEN UpdateLoop(header, entries, gen, batch_size, k + 1, st)
    ELSE LET e == entries[k]
             new_line == rebuild_line(e.date_str, e.title, e.link, wrap_in_details(gen[k].text))
             body == [st.body EXCEPT ![e.idx] = new_line]
             flush == st.updates_since_last_write + 1 >= batch_size
         IN  UpdateLoop(header, entries, gen, batch_size, k + 1,
                        [body |-> body,
                         success_count |-> st.success_count + 1,
                         updates_since_last_write |->
                             IF flush THEN 0 ELSE st.updates_since_last_write + 1,
                         disk |-> IF flush THEN header \o body ELSE st.disk])

\* lines are the lines of the existing papers.md; the result is its new lines and the
\* returned (need_count, success_count)
update_papers_md(lines, gen, batch_size) ==
    IF Len(lines) < 2 THEN [lines |-> lines, need_count |-> 0, success_count |-> 0]
    ELSE LET header == SubSeq(lines, 1, 2)
             body == SubSeq(lines, 3, Len(lines))
             entries == EntriesToUpdate(body, 1)
             st == UpdateLoop(header, entries, gen, batch_size, 1,
                              [body |-> body, success_count |-> 0,
                               updates_since_last_write |-> 0, disk |-> lines])
         IN  [lines |-> IF st.updates_since_last_write > 0 THEN header \o st.body ELSE st.disk,
              need_count |-> Len(entries),
              success_count |-> st.success_count]

----------------------------------------------------------------------------
(* clear_all_summaries, clear_summaries.py lines 40-115 *)

\* a variant: every wrapped cell passes
is_valid_when_wrapped(summary_cell) == DetailsMatch(summary_cell)[2] # 0

is_valid_markdown_format(summary_cell) ==
    LET m == DetailsMatch(summary_cell)
        content == Strip(BreaksToNewlines(SubSummary(SubSeq(summary_cell, m[1] + 1, m[2] - 1), 1)))
    IN  /\ m[2] # 0
        /\ \E i \in 1..Len(content) :
              content[i] = "#" /\ At(content, i + 1) = "#" /\ At(content, i + 2) \in Space

\* the loop body for one line: the line written back, and whether it was cleared
ClearLine(line) ==
    LET cs == parse_table_line(line)
    IN  IF /\ At(Strip(line), 1) = "|"
           /\ Len(cs) = 4
           /\ ~is_placeholder_summary(cs[4])
           /\ ~is_valid_markdown_format(cs[4])
        THEN [line |-> rebuild_line(cs[1], cs[2], cs[3], default_summary_cell), cleared |-> 1]
        ELSE [line |-> line, cleared |-> 0]

RECURSIVE Sum(_)
Sum(s) == IF s = <<>> THEN 0 ELSE Head(s) + Sum(Tail(s))

\* the result is the new lines of papers.md and the returned cleared_count
clear_all_summaries(lines) ==
    IF Len(lines) < 2 THEN [lines |-> lines, cleared_count |-> 0]
    ELSE LET body == SubSeq(lines, 3, Len(lines))
         IN  [lines |-> SubSeq(lines, 1, 2) \o Map(body, LAMBDA l : ClearLine(l).line),
              cleared_count |-> Sum(Map(body, LAMBDA l : ClearLine(l).cleared))]

----------------------------------------------------------------------------
(* A record is written as a row and read back by both parsers *)

TableDates == {<<>>, <<"d">>}

TableTitleChars == {"a", "|", " "}

TableLinks == {<<"h", "P", "1", ".", "1">>, <<"h", "P", "1", ".", "1", "v", "2">>}

\* the text inside the wrapper
TablePayloads == {<<"PH">>, <<"#", "#", " ", "a">>, <<"a", "|", "a">>, <<"a", "BR", "a">>}

TableInit ==
    /\ writer \in {"_format_row", "rebuild_line"}
    /\ rec \in [date : TableDates, title : Strs(TableTitleChars, MaxTitleLen),
                link : TableLinks, cell : {wrap_in_details(x) : x \in TablePayloads}]
    /\ writer = "_format_row" => rec.cell = default_summary_cell
    /\ row = <<>>
    /\ cells = <<>>
    /\ siteRecs = <<>>
    /\ tpc = "record"

\* the crawler writes the row of a new result
FormatRow ==
    /\ tpc = "record"
    /\ writer = "_format_row"
    /\ row' = _format_row([published |-> rec.date, title |-> rec.title, entry_id |-> rec.link])
    /\ tpc' = "written"
    /\ UNCHANGED <<rec, writer, cells, siteRecs, recoverVars, linkVars, ledgerVars, pipeVars, renderVars, buildVars, updateVars>>

\* a summary pass writes the row of a record
RebuildLine ==
    /\ tpc = "record"
    /\ writer = "rebuild_line"
    /\ row' = rebuild_line(rec.date, rec.title, rec.link, rec.cell)
    /\ tpc' = "written"
    /\ UNCHANGED <<rec, writer, cells, siteRecs, recoverVars, linkVars, ledgerVars, pipeVars, renderVars, buildVars, updateVars>>

\* the summary passes and the site builder read the row
ParseRow ==
    /\ tpc = "written"
    /\ cells' = parse_table_line(row)
    /\ siteRecs' = parse_markdown_table(<<four_header, four_sep, row>>)
    /\ tpc' = "parsed"
    /\ UNCHANGED <<rec, writer, row, recoverVars, linkVars, ledgerVars, pipeVars, renderVars, buildVars, updateVars>>

TableNext == FormatRow \/ RebuildLine \/ ParseRow

\* only this part of the program runs
TableStart == TableInit /\ RecoverIdle /\ LinkIdle /\ LedgerIdle
    /\ PipeIdle /\ RenderIdle /\ BuildIdle /\ UpdateIdle

SpecTable == TableStart /\ [][TableNext]_vars

----------------------------------------------------------------------------
(* Line-break recovery applied twice to every text over RecoverChars *)

RecoverChars == {NL, " ", "#", "-", "endash", "1", ".", "*", "fullstop", "a"}

\* a narrower alphabet, for longer texts
LightChars == {NL, " ", "-", "a"}

MaxDigits == 2

\* one-line texts with a numbered title in a bold span, the numeral of 1 to MaxDigits digits
BoldNumerals ==
    {pre \o <<"*", "*">> \o ds \o <<".", " ", "a", "*", "*">> :
        pre \in {<<>>, <<"a", " ">>}, ds \in Strs(Digit, MaxDigits) \ {<<>>}}

RecoverInit ==
    /\ text \in Strs(RecoverChars, MaxTextLen) \cup Strs(LightChars, MaxLightLen) \cup BoldNumerals
    /\ fixed1 = <<>>
    /\ fixed2 = <<>>
    /\ rpc = "input"

\* build_data's call fixed = auto_add_linebreaks(raw)
Recover ==
    /\ rpc = "input"
    /\ fixed1' = auto_add_linebreaks(text)
    /\ rpc' = "fixed"
    /\ UNCHANGED <<text, fixed2, linkVars, tableVars, ledgerVars, pipeVars, renderVars, buildVars, updateVars>>

\* a second build over the recovered text
RecoverAgain ==
    /\ rpc = "fixed"
    /\ fixed2' = auto_add_linebreaks(fixed1)
    /\ rpc' = "refixed"
    /\ UNCHANGED <<text, fixed1, linkVars, tableVars, ledgerVars, pipeVars, renderVars, buildVars, updateVars>>

RecoverNext == Recover \/ RecoverAgain

\* only this part of the program runs
RecoverStart == RecoverInit /\ LinkIdle /\ TableIdle /\ LedgerIdle
    /\ PipeIdle /\ RenderIdle /\ BuildIdle /\ UpdateIdle

SpecRecover == RecoverStart /\ [][RecoverNext]_vars

----------------------------------------------------------------------------
(* The scripts run one after another on papers.md: the crawler's __main__  *)
(* (arxiv_crawler.py lines 237-251), update_papers_md, clear_all_summaries *)
(* and build_site.py's main (lines 972-991)                                *)

\* what a search can return: two versions of one paper, a paper whose title ends in a
\* pipe, and a paper outside the allowed primary categories
SearchResults ==
    {[published |-> <<"d">>, title |-> <<"a">>,
      entry_id |-> <<"h", "P", "1", ".", "1", "v", "1">>, primary_category |-> "cs.RO"],
     [published |-> <<"d">>, title |-> <<"a">>,
      entry_id |-> <<"h", "P", "1", ".", "1", "v", "2">>, primary_category |-> "cs.RO"],
     [published |-> <<"d">>, title |-> <<"a", "|">>,
      entry_id |-> <<"h", "P", "1", ".", "2", "v", "1">>, primary_category |-> "cs.CV"],
     [published |-> <<"d">>, title |-> <<"x">>,
      entry_id |-> <<"h", "P", "2", ".", "1", "v", "1">>, primary_category |-> "math.CO"]}

\* what generate_summary_for_link does for one entry: it raises, or returns a text
GenOutcomes ==
    {[raised |-> TRUE, text |-> <<>>],
     [raised |-> FALSE, text |-> <<>>],
     [raised |-> FALSE, text |-> <<"#", "#", " ", "a">>],
     [raised |-> FALSE, text |-> <<"a">>]}

\* the default of BATCH_WRITE_SIZE
DefaultBatchSize == 5

\* the values of BATCH_WRITE_SIZE that are tried: a write after every update, and the default
BatchSizes == {1, DefaultBatchSize}

papersMd == [exists |-> fileExists, lines |-> fileLines]

\* a body line of two cells only
two_cell_line == <<"|", " ", "d", " ", "|", " ", "a", " ", "|", NL>>

\* papers.md is missing, exists but is empty, holds the two header lines, or holds
\* them and a body line of two cells
LedgerInit ==
    /\ fileExists \in BOOLEAN
    /\ fileLines \in {<<>>, <<four_header, four_sep>>, <<four_header, four_sep, two_cell_line>>}
    /\ ~fileExists => fileLines = <<>>
    /\ op = "idle"
    /\ returned = <<>>

\* __main__ of arxiv_crawler.py when papers.md is missing or empty
Initialize ==
    /\ ~(fileExists /\ fileLines # <<>>)
    /\ \E found \in Strs(SearchResults, MaxFound) :
          LET r == initialize(papersMd, found)
          IN  /\ fileExists' = r.file.exists
              /\ fileLines' = r.file.lines
              /\ returned' = <<r.count>>
    /\ op' = "initialize"
    /\ UNCHANGED <<recoverVars, linkVars, tableVars, pipeVars, renderVars, buildVars, updateVars>>

\* __main__ of arxiv_crawler.py when papers.md exists and is not empty
RunDaily ==
    /\ fileExists /\ fileLines # <<>>
    /\ \E found \in Strs(SearchResults, MaxFound) :
          /\ Len(fileLines) + Len(found) <= MaxLines
          /\ LET r == run_daily(papersMd, found)
             IN  /\ fileExists' = r.file.exists
                 /\ fileLines' = r.file.lines
                 /\ returned' = <<r.count>>
    /\ op' = "run_daily"
    /\ UNCHANGED <<recoverVars, linkVars, tableVars, pipeVars, renderVars, buildVars, updateVars>>

\* len(entries_to_update) for the lines of papers.md
NeedCount(lines) ==
    IF Len(lines) < 2 THEN 0 ELSE Len(EntriesToUpdate(SubSeq(lines, 3, Len(lines)), 1))

\* update_papers_md runs to completion: it raises when papers.md is missing
UpdatePapersMd ==
    /\ fileExists
    /\ \E batch_size \in BatchSizes :
       \E gen \in [1..NeedCount(fileLines) -> GenOutcomes] :
          LET r == update_papers_md(fileLines, gen, batch_size)
          IN  /\ fileLines' = r.lines
              /\ returned' = <<r.need_count, r.success_count>>
    /\ op' = "update_papers_md"
    /\ UNCHANGED <<fileExists, recoverVars, linkVars, tableVars, pipeVars, renderVars, buildVars, updateVars>>

\* clear_all_summaries runs to completion: it raises when papers.md is missing
ClearAllSummaries ==
    /\ fileExists
    /\ LET r == clear_all_summaries(fileLines)
       IN  /\ fileLines' = r.lines
           /\ returned' = <<r.cleared_count>>
    /\ op' = "clear_all_summaries"
    /\ UNCHANGED <<fileExists, recoverVars, linkVars, tableVars, pipeVars, renderVars, buildVars, updateVars>>

\* main of build_site.py: data is what it writes to assets/data.json
BuildSite ==
    /\ fileExists
    /\ returned' = build_data(parse_markdown_table(fileLines))
    /\ op' = "build_site"
    /\ UNCHANGED <<fileExists, fileLines, recoverVars, linkVars, tableVars, pipeVars, renderVars, buildVars, updateVars>>

LedgerNext == Initialize \/ RunDaily \/ UpdatePapersMd \/ ClearAllSummaries \/ BuildSite

\* only this part of the program runs
LedgerStart == LedgerInit /\ RecoverIdle /\ LinkIdle /\ TableIdle
    /\ PipeIdle /\ RenderIdle /\ BuildIdle /\ UpdateIdle

SpecLedger == LedgerStart /\ [][LedgerNext]_vars

----------------------------------------------------------------------------
(* The site pipeline on one summary cell: parse_markdown_table's call of   *)
(* extract_details (build_site.py line 59) and build_data's calls of       *)
(* auto_add_linebreaks and markdown_to_html (lines 245-247)                *)

\* the characters of a cell that may or may not hold a wrapper
CellChars == {"a", " ", "BR", "SO", "SC", "DO", "DC"}

HeadTexts == {<<"a">>, <<"a", " ", "x">>}
SentenceTexts == {<<"a", "fullstop">>, <<"x">>}
ItemTexts == {<<"a">>, <<"x">>}

\* the wrapped cell whose payload is a level-2 heading, a sentence and two list items,
\* joined by the markers m1, m2, m3
StructuredCell(h, t, a, b, m1, m2, m3) ==
    wrap_in_details(<<"#", "#", " ">> \o h \o <<m1>> \o t \o <<m2, "-", " ">> \o a
                        \o <<m3, "-", " ">> \o b)

StructuredCells ==
    {StructuredCell(h, t, a, b, m1, m2, m3) :
        h \in HeadTexts, t \in SentenceTexts, a \in ItemTexts, b \in ItemTexts,
        m1 \in BreakMarks, m2 \in BreakMarks, m3 \in BreakMarks}

PipeInit ==
    /\ cellIn \in Strs(CellChars, MaxCellLen) \cup StructuredCells
    /\ payloadOut = <<>>
    /\ markdownOut = <<>>
    /\ renderedOut = <<>>
    /\ ppc = "cell"

\* details_content = extract_details(summary_cell)
ExtractDetails ==
    /\ ppc = "cell"
    /\ payloadOut' = extract_details(cellIn)
    /\ ppc' = "extracted"
    /\ UNCHANGED <<cellIn, markdownOut, renderedOut>>
    /\ UNCHANGED <<recoverVars, linkVars, tableVars, ledgerVars, renderVars, buildVars, updateVars>>

\* fixed = auto_add_linebreaks(raw)
AddLinebreaks ==
    /\ ppc = "extracted"
    /\ markdownOut' = auto_add_linebreaks(payloadOut)
    /\ ppc' = "fixed"
    /\ UNCHANGED <<cellIn, payloadOut, renderedOut>>
    /\ UNCHANGED <<recoverVars, linkVars, tableVars, ledgerVars, renderVars, buildVars, updateVars>>

\* html = markdown_to_html(fixed)
MarkdownToHtml ==
    /\ ppc = "fixed"
    /\ renderedOut' = markdown_to_html(markdownOut)
    /\ ppc' = "rendered"
    /\ UNCHANGED <<cellIn, payloadOut, markdownOut>>
    /\ UNCHANGED <<recoverVars, linkVars, tableVars, ledgerVars, renderVars, buildVars, updateVars>>

PipeNext == ExtractDetails \/ AddLinebreaks \/ MarkdownToHtml

\* only this part of the program runs
PipeStart == PipeInit /\ RecoverIdle /\ LinkIdle /\ TableIdle /\ LedgerIdle
    /\ RenderIdle /\ BuildIdle /\ UpdateIdle

SpecPipe == PipeStart /\ [][PipeNext]_vars

----------------------------------------------------------------------------
(* markdown_to_html step by step: one step per iteration of its main loop, *)
(* build_site.py lines 151-239                                             *)

RECURSIVE Hashes(_)
Hashes(n) == IF n = 0 THEN <<>> ELSE <<"#">> \o Hashes(n - 1)

\* the lines a text is put together from
RenderLineKinds ==
    {<<>>, <<" ">>, <<"-", " ", "a">>, <<"*", " ", "x">>, <<"1", ".", " ", "a">>,
     <<"a">>, Rule3, <<"#", "#", " ", "a">>}

\* one line of '#' characters, whitespace and text
HeadingInputs ==
    {Hashes(n) \o sp \o t :
        n \in 1..MaxHashes, sp \in {<<>>, <<" ">>, <<" ", " ">>},
        t \in {<<>>, <<"a">>, <<"a", " ", "#">>}}

RenderInputs ==
    {Join(ls, NL) : ls \in Strs(RenderLineKinds, MaxMdLines)} \cup HeadingInputs

RenderInit ==
    /\ mdIn \in RenderInputs
    /\ mdLines = <<>>
    /\ mdIdx = 0
    /\ htmlLines = <<>>
    /\ htmlRet = <<>>
    /\ mpc = "start"

\* lines = md.splitlines(); html_lines = []; i = 0 (the first line has index 1 here)
SplitInput ==
    /\ mpc = "start"
    /\ mdLines' = SplitLines(mdIn)
    /\ mdIdx' = 1
    /\ mpc' = "loop"
    /\ UNCHANGED <<mdIn, htmlLines, htmlRet>>
    /\ UNCHANGED <<recoverVars, linkVars, tableVars, ledgerVars, pipeVars, buildVars, updateVars>>

\* line = lines[i].rstrip() inside the loop
CurrentLine == RStrip(mdLines[mdIdx])

InLoop == mpc = "loop" /\ mdIdx <= Len(mdLines)

\* if not line
BlankLine ==
    /\ InLoop
    /\ CurrentLine = <<>>
    /\ htmlLines' = Append(htmlLines, <<>>)
    /\ mdIdx' = mdIdx + 1
    /\ UNCHANGED <<mdIn, mdLines, htmlRet, mpc>>
    /\ UNCHANGED <<recoverVars, linkVars, tableVars, ledgerVars, pipeVars, buildVars, updateVars>>

\* if title_match
TitleLine ==
    /\ InLoop
    /\ CurrentLine # <<>>
    /\ TitleLevel(CurrentLine) # 0
    /\ LET level == TitleLevel(CurrentLine)
       IN  htmlLines' = Append(htmlLines,
               <<TitleOpen(level)>> \o render_inline(Strip(Tail3(CurrentLine, level + 2)))
                   \o <<TitleClose(level)>>)
    /\ mdIdx' = mdIdx + 1
    /\ UNCHANGED <<mdIn, mdLines, htmlRet, mpc>>
    /\ UNCHANGED <<recoverVars, linkVars, tableVars, ledgerVars, pipeVars, buildVars, updateVars>>

\* if line.strip() == "---"
RuleLine ==
    /\ InLoop
    /\ CurrentLine # <<>>
    /\ TitleLevel(CurrentLine) = 0
    /\ Strip(CurrentLine) = Rule3
    /\ htmlLines' = Append(htmlLines, <<"<hr/>">>)
    /\ mdIdx' = mdIdx + 1
    /\ UNCHANGED <<mdIn, mdLines, htmlRet, mpc>>
    /\ UNCHANGED <<recoverVars, linkVars, tableVars, ledgerVars, pipeVars, buildVars, updateVars>>

\* none of the three cases before the lists
NoBlockBeforeLists ==
    CurrentLine # <<>> /\ TitleLevel(CurrentLine) = 0 /\ Strip(CurrentLine) # Rule3

\* if re.match(r"^[-*]\s+", line), with its inner while loop
UnorderedList ==
    /\ InLoop
    /\ NoBlockBeforeLists
    /\ ItemMatch("ul", CurrentLine) # 0
    /\ LET e == ListEnd("ul", mdLines, mdIdx)
       IN  /\ htmlLines' = Append(htmlLines,
                   <<"<ul>">> \o ListItems("ul", mdLines, mdIdx, e) \o <<"</ul>">>)
           /\ mdIdx' = e
    /\ UNCHANGED <<mdIn, mdLines, htmlRet, mpc>>
    /\ UNCHANGED <<recoverVars, linkVars, tableVars, ledgerVars, pipeVars, buildVars, updateVars>>

\* if re.match(r"^\d+\.\s+", line), with its inner while loop
OrderedList ==
    /\ InLoop
    /\ NoBlockBeforeLists
    /\ ItemMatch("ul", CurrentLine) = 0
    /\ ItemMatch("ol", CurrentLine) # 0
    /\ LET e == ListEnd("ol", mdLines, mdIdx)
       IN  /\ htmlLines' = Append(htmlLines,
                   <<"<ol>">> \o ListItems("ol", mdLines, mdIdx, e) \o <<"</ol>">>)
           /\ mdIdx' = e
    /\ UNCHANGED <<mdIn, mdLines, htmlRet, mpc>>
    /\ UNCHANGED <<recoverVars, linkVars, tableVars, ledgerVars, pipeVars, buildVars, updateVars>>

\* the paragraph fallback
Paragraph ==
    /\ InLoop
    /\ NoBlockBeforeLists
    /\ ItemMatch("ul", CurrentLine) = 0
    /\ ItemMatch("ol", CurrentLine) = 0
    /\ htmlLines' = Append(htmlLines, <<"<p>">> \o render_inline(CurrentLine) \o <<"</p>">>)
    /\ mdIdx' = mdIdx + 1
    /\ UNCHANGED <<mdIn, mdLines, htmlRet, mpc>>
    /\ UNCHANGED <<recoverVars, linkVars, tableVars, ledgerVars, pipeVars, buildVars, updateVars>>

\* after the loop: the blank entries are merged, the entries joined and the text stripped
JoinEntries ==
    /\ mpc = "loop"
    /\ mdIdx > Len(mdLines)
    /\ htmlRet' = Strip(Join(MergeBlank(htmlLines, FALSE), NL))
    /\ mpc' = "done"
    /\ UNCHANGED <<mdIn, mdLines, mdIdx, htmlLines>>
    /\ UNCHANGED <<recoverVars, linkVars, tableVars, ledgerVars, pipeVars, buildVars, updateVars>>

RenderNext ==
    \/ SplitInput \/ BlankLine \/ TitleLine \/ RuleLine \/ UnorderedList \/ OrderedList
    \/ Paragraph \/ JoinEntries

\* only this part of the program runs
RenderStart == RenderInit /\ RecoverIdle /\ LinkIdle /\ TableIdle /\ LedgerIdle
    /\ PipeIdle /\ BuildIdle /\ UpdateIdle

SpecRender == RenderStart /\ [][RenderNext]_vars

\* the steps give what the function gives as a whole
RenderAgrees == mpc = "done" => htmlRet = markdown_to_html(mdIn)

----------------------------------------------------------------------------
\* build_data on the records parse_markdown_table returns

MaxRecords == 2

\* the payloads of the records: empty, plain, a heading followed by inline bullets, a
\* multi-line list
BuildPayloads ==
    { <<>>, <<"a">>,
      <<"#", "#", " ", "a", " ", "-", " ", "a", " ", "-", " ", "a">>,
      <<"-", " ", "a", NL, "-", " ", "a">> }

BuildRecords ==
    [date : {<<"d">>, <<"d", "1">>}, title : {<<"a">>}, link : {<<"h", "P", "1">>},
     details_raw : BuildPayloads]

BuildInit ==
    /\ recordsIn \in UNION {[1..n -> BuildRecords] : n \in 0..MaxRecords}
    /\ dataOut = <<>>
    /\ bpc = "start"

\* data = build_data(records)
BuildData ==
    /\ bpc = "start"
    /\ dataOut' = build_data(recordsIn)
    /\ bpc' = "done"
    /\ UNCHANGED recordsIn
    /\ UNCHANGED <<recoverVars, linkVars, tableVars, ledgerVars, pipeVars, renderVars, updateVars>>

BuildNext == BuildData

\* only this part of the program runs
BuildStart == BuildInit /\ RecoverIdle /\ LinkIdle /\ TableIdle /\ LedgerIdle
    /\ PipeIdle /\ RenderIdle /\ UpdateIdle

SpecBuild == BuildStart /\ [][BuildNext]_vars

----------------------------------------------------------------------------
(* update_papers_md step by step (generate_summaries.py lines 208-285),    *)
(* with writes of papers.md that can fail                                  *)

MaxUpdRows == 2

\* the body lines of the ledger update_papers_md reads: two rows that hold the
\* placeholder, a row that holds a summary, and a line of two cells
UpdRows ==
    {rebuild_line(<<"d">>, <<"a">>, <<"h", "P", "1">>, default_summary_cell),
     rebuild_line(<<"d">>, <<"x">>, <<"h", "P", "2">>, default_summary_cell),
     rebuild_line(<<"d">>, <<"a">>, <<"h", "P", "1", ".", "1">>, wrap_in_details(<<"#", "#", " ", "a">>)),
     two_cell_line}

\* papers.md is empty, holds one line, or holds the header lines and up to MaxUpdRows lines
UpdFiles ==
    {<<>>, <<four_header>>}
        \cup {<<four_header, four_sep>> \o b : b \in Strs(UpdRows, MaxUpdRows)}

\* the values of BATCH_WRITE_SIZE that are tried
UpdBatchSizes == {1, 2, DefaultBatchSize}

UpdateInit ==
    /\ updLines \in UpdFiles
    /\ updDisk = updLines
    /\ updBody = <<>>
    /\ updGen \in [1..NeedCount(updLines) -> GenOutcomes]
    /\ updBatch \in UpdBatchSizes
    /\ updIdx = 0
    /\ success_count = 0
    /\ updates_since_last_write = 0
    /\ updRet = <<>>
    /\ upc = "start"

\* entries_to_update
Entries == EntriesToUpdate(SubSeq(updLines, 3, Len(updLines)), 1)

\* what a failed write leaves on disk: the old lines when the file could not be
\* opened, otherwise some or all of the first lines of what was being written
WriteFailures(old, new) == {old} \cup {SubSeq(new, 1, n) : n \in 0..Len(new)}

\* if len(lines) < 2: return 0, 0
ReturnShort ==
    /\ upc = "start"
    /\ Len(updLines) < 2
    /\ updRet' = <<0, 0>>
    /\ upc' = "returned"
    /\ UNCHANGED <<updLines, updDisk, updBody, updGen, updBatch, updIdx, success_count,
                   updates_since_last_write>>
    /\ UNCHANGED <<recoverVars, linkVars, tableVars, ledgerVars, pipeVars, renderVars, buildVars>>

\* header, body, entries_to_update and the counters are set up
CollectEntries ==
    /\ upc = "start"
    /\ Len(updLines) >= 2
    /\ updBody' = SubSeq(updLines, 3, Len(updLines))
    /\ updIdx' = 1
    /\ success_count' = 0
    /\ updates_since_last_write' = 0
    /\ upc' = "loop"
    /\ UNCHANGED <<updLines, updDisk, updGen, updBatch, updRet>>
    /\ UNCHANGED <<recoverVars, linkVars, tableVars, ledgerVars, pipeVars, renderVars, buildVars>>

InEntries == upc = "loop" /\ updIdx <= Len(Entries)

\* generate_summary_for_link gave a text for the entry at updIdx
Generated == ~updGen[updIdx].raised /\ updGen[updIdx].text # <<>>

\* body with body[idx] = new_line for the entry at updIdx
BodyUpdated ==
    LET e == Entries[updIdx]
    IN  [updBody EXCEPT ![e.idx] =
            rebuild_line(e.date_str, e.title, e.link, wrap_in_details(updGen[updIdx].text))]

\* the generator raised (caught by the outer except) or returned nothing (continue)
GenerationFails ==
    /\ InEntries
    /\ ~Generated
    /\ updIdx' = updIdx + 1
    /\ UNCHANGED <<updLines, updDisk, updBody, updGen, updBatch, success_count,
                   updates_since_last_write, updRet, upc>>
    /\ UNCHANGED <<recoverVars, linkVars, tableVars, ledgerVars, pipeVars, renderVars, buildVars>>

\* the row is updated in memory and the batch is not full yet
UpdateEntry ==
    /\ InEntries
    /\ Generated
    /\ updates_since_last_write + 1 < updBatch
    /\ updBody' = BodyUpdated
    /\ success_count' = success_count + 1
    /\ updates_since_last_write' = updates_since_last_write + 1
    /\ updIdx' = updIdx + 1
    /\ UNCHANGED <<updLines, updDisk, updGen, updBatch, updRet, upc>>
    /\ UNCHANGED <<recoverVars, linkVars, tableVars, ledgerVars, pipeVars, renderVars, buildVars>>

\* the row is updated in memory, the batch is full and papers.md is written
BatchWrite ==
    /\ InEntries
    /\ Generated
    /\ updates_since_last_write + 1 >= updBatch
    /\ updBody' = BodyUpdated
    /\ success_count' = success_count + 1
    /\ updDisk' = SubSeq(updLines, 1, 2) \o BodyUpdated
    /\ updates_since_last_write' = 0
    /\ updIdx' = updIdx + 1
    /\ UNCHANGED <<updLines, updGen, updBatch, updRet, upc>>
    /\ UNCHANGED <<recoverVars, linkVars, tableVars, ledgerVars, pipeVars, renderVars, buildVars>>

\* a variant: the counter is set to 0 although the write failed
BatchWriteFailsAndResets ==
    /\ InEntries
    /\ Generated
    /\ updates_since_last_write + 1 >= updBatch
    /\ updBody' = BodyUpdated
    /\ success_count' = success_count + 1
    /\ updDisk' \in WriteFailures(updDisk, SubSeq(updLines, 1, 2) \o BodyUpdated)
    /\ updates_since_last_write' = 0
    /\ updIdx' = updIdx + 1
    /\ UNCHANGED <<updLines, updGen, updBatch, updRet, upc>>
    /\ UNCHANGED <<recoverVars, linkVars, tableVars, ledgerVars, pipeVars, renderVars, buildVars>>

\* the row is updated in memory, the batch is full and the write fails: the inner
\* except prints a warning, the counter keeps its value
BatchWriteFails ==
    /\ InEntries
    /\ Generated
    /\ updates_since_last_write + 1 >= updBatch
    /\ updBody' = BodyUpdated
    /\ success_count' = success_count + 1
    /\ updDisk' \in WriteFailures(updDisk, SubSeq(updLines, 1, 2) \o BodyUpdated)
    /\ updates_since_last_write' = updates_since_last_write + 1
    /\ updIdx' = updIdx + 1
    /\ UNCHANGED <<updLines, updGen, updBatch, updRet, upc>>
    /\ UNCHANGED <<recoverVars, linkVars, tableVars, ledgerVars, pipeVars, renderVars, buildVars>>

AfterEntries == upc = "loop" /\ updIdx > Len(Entries)

\* the last write, and return need_count, success_count
FinalWrite ==
    /\ AfterEntries
    /\ updates_since_last_write > 0
    /\ updDisk' = SubSeq(updLines, 1, 2) \o updBody
    /\ updRet' = <<Len(Entries), success_count>>
    /\ upc' = "returned"
    /\ UNCHANGED <<updLines, updBody, updGen, updBatch, updIdx, success_count,
                   updates_since_last_write>>
    /\ UNCHANGED <<recoverVars, linkVars, tableVars, ledgerVars, pipeVars, renderVars, buildVars>>

\* the last write fails: the error is printed and raised again
FinalWriteFails ==
    /\ AfterEntries
    /\ updates_since_last_write > 0
    /\ updDisk' \in WriteFailures(updDisk, SubSeq(updLines, 1, 2) \o updBody)
    /\ upc' = "raised"
    /\ UNCHANGED <<updLines, updBody, updGen, updBatch, updIdx, success_count,
                   updates_since_last_write, updRet>>
    /\ UNCHANGED <<recoverVars, linkVars, tableVars, ledgerVars, pipeVars, renderVars, buildVars>>

\* nothing is left to write: return need_count, success_count
ReturnCounts ==
    /\ AfterEntries
    /\ updates_since_last_write = 0
    /\ updRet' = <<Len(Entries), success_count>>
    /\ upc' = "returned"
    /\ UNCHANGED <<updLines, updDisk, updBody, updGen, updBatch, updIdx, success_count,
                   updates_since_last_write>>
    /\ UNCHANGED <<recoverVars, linkVars, tableVars, ledgerVars, pipeVars, renderVars, buildVars>>

UpdateNext ==
    \/ ReturnShort \/ CollectEntries \/ GenerationFails \/ UpdateEntry \/ BatchWrite
    \/ BatchWriteFails \/ FinalWrite \/ FinalWriteFails \/ ReturnCounts

\* only this part of the program runs
UpdateStart == UpdateInit /\ RecoverIdle /\ LinkIdle /\ TableIdle /\ LedgerIdle
    /\ PipeIdle /\ RenderIdle /\ BuildIdle

SpecUpdate == UpdateStart /\ [][UpdateNext]_vars

\* a normal return gives what the function as a whole gives when no write fails
UpdateAgrees ==
    upc = "returned" =>
        LET r == update_papers_md(updLines, updGen, updBatch)
        IN  updDisk = r.lines /\ updRet = <<r.need_count, r.success_count>>

----------------------------------------------------------------------------
(* Properties of line-break recovery *)

NonSpace(s) == SelectSeq(s, LAMBDA c : c \notin Space)

\* the indices of the non-whitespace characters of s, in order
NonSpaceIdx(s) == SelectSeq([i \in 1..Len(s) |-> i], LAMBDA i : s[i] \notin Space)

\* how many non-whitespace characters s has up to index i
Rank(s, i) == Cardinality({j \in 1..i : s[j] \notin Space})

\* where the non-whitespace character at index i of s sits in r
Image(s, r, i) == NonSpaceIdx(r)[Rank(s, i)]

\* the whitespace directly before index p holds a newline
BreakBefore(s, p) == \E j \in 1..(p - 1) : s[j] = NL /\ \A m \in j..(p - 1) : s[m] \in Space

\* index p is the first non-whitespace character of its line
AtLineStart(s, p) == BreakBefore(s, p) \/ \A j \in 1..(p - 1) : s[j] \in Space

\* an inline " - " or " endash " token at i: the dash stands between whitespace, mid-line
InlineBullet(s, i) ==
    /\ At(s, i) \in Dash
    /\ At(s, i - 1) \in Space
    /\ At(s, i + 1) \in Space
    /\ ~AtLineStart(s, i)

\* an inline "<digits>. " token starting at i, mid-line
InlineNumber(s, i) ==
    /\ At(s, i) \in Digit
    /\ At(s, i - 1) \notin Digit
    /\ At(s, RunEnd(s, i, Digit)) = "."
    /\ At(s, RunEnd(s, i, Digit) + 1) \in Space
    /\ ~AtLineStart(s, i)

InlineToken(s, i) == InlineBullet(s, i) \/ InlineNumber(s, i)

\* a heading line of s starts at i: #+ and whitespace at the start of a line
HeadingStart(s, i) ==
    /\ At(s, i) = "#"
    /\ (i = 1 \/ s[i - 1] = NL)
    /\ At(s, RunEnd(s, i, Hash)) \in Space

\* the token at i directly follows a --- rule (whitespace apart) that has a character before it
AfterRule(s, i) ==
    \E j \in 1..(i - 1) :
        /\ IsRule(s, j)
        /\ \A m \in (j + 3)..(i - 1) : s[m] \in Space
        /\ \E b \in 1..(j - 1) : s[b] # NL /\ \A m \in (b + 1)..(j - 1) : s[m] \in Space

\* s ends in <host>/abs/<numeric-id>v<digits>: the index of the v, else 0
TrailingVersion(s) ==
    LET ms == {j \in 1..Len(s) : VersionMatch(s, j)[2] = Len(s) + 1}
    IN  IF ms = {} THEN 0 ELSE VersionMatch(s, CHOOSE j \in ms : TRUE)[1]

\* C1: line-break recovery is idempotent: recovering the recovered text changes nothing.
C1_RecoverIdempotent == rpc = "refixed" => fixed2 = fixed1

\* C10 as claimed: on a text with a newline, recovery keeps the sequence of non-whitespace
\* characters (so no en-dash is rewritten and no # is removed), keeps every heading line
\* at the start of a line, and puts no newline before any inline list token.
C10_LightNeverBreaksList ==
    (rpc # "input" /\ HasNewline(text)) =>
        /\ NonSpace(fixed1) = NonSpace(text)
        /\ \A i \in 1..Len(text) :
              /\ HeadingStart(text, i) => AtLineStart(fixed1, Image(text, fixed1, i))
              /\ InlineToken(text, i) => ~BreakBefore(fixed1, Image(text, fixed1, i))

\* C10 amended: as above, but an inline list token that directly follows a --- rule
\* may get a newline before it (the rule is given a newline on both sides).
C10_LightBreaksOnlyAfterRule ==
    (rpc # "input" /\ HasNewline(text)) =>
        /\ NonSpace(fixed1) = NonSpace(text)
        /\ \A i \in 1..Len(text) :
              /\ HeadingStart(text, i) => AtLineStart(fixed1, Image(text, fixed1, i))
              /\ (InlineToken(text, i) /\ ~AfterRule(text, i))
                    => ~BreakBefore(fixed1, Image(text, fixed1, i))

\* a text with a newline, an inline list token and a heading line that recovery has rewritten
C10_Witness ==
    /\ rpc = "fixed"
    /\ HasNewline(text)
    /\ \E i \in 1..Len(text) : InlineToken(text, i)
    /\ \E i \in 1..Len(text) : HeadingStart(text, i)
    /\ fixed1 # text

\* C6: link normalization is a projection, and links that differ only in the trailing
\* version suffix normalize to one and the same link that carries no version suffix.
C6_NormalizeProjection ==
    /\ lpc = "renormalized" => norm2 = norm1
    /\ (lpc # "input" /\ lpc # "idle" /\ TrailingVersion(Strip(link)) # 0) =>
          LET base == SubSeq(Strip(link), 1, TrailingVersion(Strip(link)))
          IN  /\ \A ds \in {<<"1">>, <<"2">>, <<"1", "2">>} : _normalize_link(base \o ds) = norm1
              /\ TrailingVersion(norm1) = 0

\* C7: only a trailing v<digits> of a link ending in <host>/abs/<numeric-id>v<digits> is
\* removed; any other link comes back unchanged apart from the trimming.
C7_OnlyTrailingVersion ==
    (lpc # "input" /\ lpc # "idle") =>
        LET s == Strip(link)
        IN  IF TrailingVersion(s) = 0 THEN norm1 = s
            ELSE norm1 = Strip(SubSeq(s, 1, TrailingVersion(s) - 1))

HasPipe(s) == \E i \in 1..Len(s) : s[i] = "|"

\* every field of the record is non-empty and has no surrounding whitespace
Trimmed(r) == \A f \in {"date", "title", "link", "cell"} : r[f] # <<>> /\ Strip(r[f]) = r[f]

\* C3: a record of trimmed, non-empty fields with a delimiter in its title, written by rebuild_line and read by
\* parse_table_line, comes back as exactly its four fields, the delimiter unescaped.
C3_TableRoundTrip ==
    (tpc = "parsed" /\ writer = "rebuild_line" /\ Trimmed(rec) /\ HasPipe(rec.title)) =>
        cells = <<rec.date, rec.title, rec.link, rec.cell>>

\* C4: a row of trimmed, non-empty fields with a delimiter in its title or payload, written by _format_row or
\* rebuild_line, is read by parse_markdown_table as one record with the date, title and
\* link that were written and the payload that extraction gives for the written cell.
C4_SiteParseLossless ==
    (tpc = "parsed" /\ Trimmed(rec) /\ (HasPipe(rec.title) \/ HasPipe(rec.cell))) =>
        /\ Len(siteRecs) = 1
        /\ siteRecs[1].date = rec.date
        /\ siteRecs[1].title = rec.title
        /\ siteRecs[1].link = (IF writer = "_format_row" THEN _normalize_link(rec.link) ELSE rec.link)
        /\ siteRecs[1].details_raw = extract_details(rec.cell)

----------------------------------------------------------------------------
(* Properties of the ledger *)

Includes(s, c) == \E i \in 1..Len(s) : s[i] = c

CrawlerRan == op \in {"initialize", "run_daily"}

\* C2: after any sequence of crawler runs no two lines of the ledger hold the same
\* normalized link, so a result whose normalized link is already in the ledger (or
\* earlier in the same search) is never inserted
C2_NoDuplicateLink ==
    \A i \in 1..Len(fileLines) : \A j \in 1..Len(fileLines) :
        i # j => LineLinks(fileLines[i], 1) \cap LineLinks(fileLines[j], 1) = {}

\* C5: after a crawler run, from a missing, an empty or a populated papers.md, the
\* first two lines of the ledger are the header row and the separator row
C5_HeaderFirst ==
    CrawlerRan =>
        Len(fileLines) >= 2 /\ fileLines[1] = four_header /\ fileLines[2] = four_sep

\* the text of a line before its summary cell, the whole line when it has none
BeforeSummary(line) ==
    LET opens == {i \in 1..Len(line) : line[i] = "DO"}
    IN  IF opens = {} THEN line ELSE SubSeq(line, 1, Least(opens) - 1)

\* C8: update_papers_md and clear_all_summaries keep the number and the order of the
\* lines, and on every line the text before the summary cell (date, title, link)
C8_SummaryInPlace ==
    [][op' \in {"update_papers_md", "clear_all_summaries"} =>
          /\ Len(fileLines') = Len(fileLines)
          /\ \A k \in 1..Len(fileLines) :
                BeforeSummary(fileLines'[k]) = BeforeSummary(fileLines[k])]_vars

\* C9: the site build makes no rendered summary out of the placeholder text, and
\* clear_all_summaries leaves every line that holds the placeholder as it is
C9_PlaceholderSkipped ==
    [][/\ op' = "build_site" =>
             \A k \in 1..Len(returned') : ~Includes(returned'[k].summary_html, "PH")
       /\ op' = "clear_all_summaries" =>
             /\ Len(fileLines') = Len(fileLines)
             /\ \A k \in 1..Len(fileLines) :
                   Includes(fileLines[k], "PH") => fileLines'[k] = fileLines[k]]_vars

----------------------------------------------------------------------------
(* Properties of the site pipeline *)

\* C11: a cell without a <details>...</details> wrapper comes back from extract_details
\* unchanged, whatever whitespace, <summary> element or <br> marker it holds
C11_NoWrapperUnchanged ==
    (ppc # "cell" /\ ppc # "idle" /\ DetailsMatch(cellIn)[2] = 0) => payloadOut = cellIn

\* C12: for the wrapped cell 'heading<br>sentence<br>- item<br>- item', in any of the
\* three spellings of each marker, extraction gives the four lines without wrapper and
\* label, recovery leaves them as they are, and rendering gives one level-2 heading
\* with the section-title class, one paragraph and one unordered list of two items
C12_StructuredCellRendered ==
    \A h \in HeadTexts, t \in SentenceTexts, a \in ItemTexts, b \in ItemTexts,
       m1 \in BreakMarks, m2 \in BreakMarks, m3 \in BreakMarks :
        (ppc = "rendered" /\ cellIn = StructuredCell(h, t, a, b, m1, m2, m3)) =>
            /\ payloadOut = <<"#", "#", " ">> \o h \o <<NL>> \o t \o <<NL, "-", " ">> \o a
                                \o <<NL, "-", " ">> \o b
            /\ markdownOut = payloadOut
            /\ renderedOut = <<"<h2 class=\"section-title\">">> \o h \o <<"</h2>", NL, "<p>">>
                                \o t \o <<"</p>", NL, "<ul>", "<li>">> \o a
                                \o <<"</li>", "<li>">> \o b \o <<"</li>", "</ul>">>

\* a structured cell that uses all three spellings of the marker has been rendered
C12_Witness ==
    /\ ppc = "rendered"
    /\ cellIn = StructuredCell(<<"a">>, <<"a", "fullstop">>, <<"a">>, <<"x">>, "BR", "BRS", "BRSS")
    /\ renderedOut # <<>>

----------------------------------------------------------------------------
(* Properties of markdown_to_html *)

\* line k of the text, without its trailing whitespace
LineAt(k) == RStrip(mdLines[k])

IsListLine(kind, k) == k >= 1 /\ k <= Len(mdLines) /\ ItemMatch(kind, LineAt(k)) # 0

IsBlank(k) == LineAt(k) = <<>>

\* the lines that start a block: every line but those that continue a run of list lines
BlockStarts ==
    {k \in 1..Len(mdLines) :
        \A kind \in {"ul", "ol"} : ~(IsListLine(kind, k) /\ IsListLine(kind, k - 1))}

\* the entry of html_lines that the block starting at line k should be
EntryOf(k) == htmlLines[Cardinality({u \in BlockStarts : u <= k})]

\* the line after the maximal run of list lines of the kind that starts at line k
RunStop(kind, k) == Least({e \in (k + 1)..(Len(mdLines) + 1) : ~IsListLine(kind, e)})

\* the r-th smallest member of a set of numbers
Nth(S, r) == CHOOSE p \in S : Cardinality({q \in S : q <= p}) = r

\* entry is one list element of the kind whose items are the texts of lines k..e-1, in order
IsListOf(kind, entry, k, e) ==
    LET opens == {p \in 1..Len(entry) : entry[p] = "<li>"}
        closes == {p \in 1..Len(entry) : entry[p] = "</li>"}
    IN  /\ Len(entry) >= 2
        /\ entry[1] = (IF kind = "ul" THEN "<ul>" ELSE "<ol>")
        /\ entry[Len(entry)] = (IF kind = "ul" THEN "</ul>" ELSE "</ol>")
        /\ Cardinality(opens) = e - k
        /\ Cardinality(closes) = e - k
        /\ \A r \in 1..(e - k) :
              SubSeq(entry, Nth(opens, r) + 1, Nth(closes, r) - 1)
                  = Strip(Tail3(LineAt(k + r - 1), IF kind = "ul" THEN 2
                                                   ELSE RunEnd(LineAt(k + r - 1), 1, Digit) + 1))

\* C13: every maximal run of unordered (ordered) list lines becomes exactly one <ul>
\* (<ol>) element with one item per line in line order; a blank or other line ends the
\* run and is a block of its own, and list lines after it start a new element
C13_OneListPerRun ==
    mpc = "done" =>
        /\ Len(htmlLines) = Cardinality(BlockStarts)
        /\ \A k \in BlockStarts :
              /\ \A kind \in {"ul", "ol"} :
                    IsListLine(kind, k) => IsListOf(kind, EntryOf(k), k, RunStop(kind, k))
              /\ (~IsListLine("ul", k) /\ ~IsListLine("ol", k)) =>
                    \A p \in 1..Len(EntryOf(k)) : EntryOf(k)[p] \notin {"<ul>", "<ol>", "<li>"}

\* '- a', '- b', a blank line and a further line have been rendered
C13_Witness ==
    /\ mpc = "done"
    /\ mdIn = <<"-", " ", "a", NL, "-", " ", "a", NL, NL, "a">>
    /\ htmlLines = << <<"<ul>", "<li>", "a", "</li>", "<li>", "a", "</li>", "</ul>">>,
                      <<>>, <<"<p>", "a", "</p>">> >>

\* the number of '#' characters a line starts with
HashCount(l) == RunEnd(l, 1, Hash) - 1

\* the opening and closing tag of a heading of level 1 to 4
HeadingTags ==
    << <<"<h1>", "</h1>">>, <<"<h2 class=\"section-title\">", "</h2>">>,
       <<"<h3>", "</h3>">>, <<"<h4>", "</h4>">> >>

\* C18: a line of 1 to 6 '#', whitespace and text becomes a heading of level
\* min(count, 4), with the section-title class exactly on level 2; a line of 7 or
\* more '#' is no heading and becomes a paragraph
C18_HeadingLevel ==
    mpc = "done" =>
        \A k \in BlockStarts :
            LET l == LineAt(k)
                n == HashCount(l)
                level == IF n <= 4 THEN n ELSE 4
            IN  /\ (n >= 1 /\ n <= 6 /\ At(l, n + 1) \in Space) =>
                      EntryOf(k) = <<HeadingTags[level][1]>> \o Strip(Tail3(l, n + 1))
                                       \o <<HeadingTags[level][2]>>
                /\ n >= 7 => EntryOf(k) = <<"<p>">> \o l \o <<"</p>">>

\* lines of two, five, six and seven '#' with a text have been rendered
C18_Witness ==
    /\ mpc = "done"
    /\ mdIn = Hashes(6) \o <<" ", "a">>
    /\ htmlRet = <<"<h4>", "a", "</h4>">>

\* the entries of the returned text
OutEntries == Split(htmlRet, NL)

\* C19: the returned text has no two consecutive blank entries and neither starts nor
\* ends with a blank entry
C19_BlankEntriesCollapsed ==
    (mpc = "done" /\ htmlRet # <<>>) =>
        /\ OutEntries[1] # <<>>
        /\ OutEntries[Len(OutEntries)] # <<>>
        /\ \A j \in 1..(Len(OutEntries) - 1) : ~(OutEntries[j] = <<>> /\ OutEntries[j + 1] = <<>>)

\* a text with two blank lines between two blocks
C19_Witness ==
    /\ mpc = "done"
    /\ mdLines = <<<<"a">>, <<>>, <<" ">>, <<"a">>>>
    /\ htmlRet = <<"<p>", "a", "</p>", NL, NL, "<p>", "a", "</p>">>

\* the lines parse_markdown_table takes as table rows: the non-blank lines after the
\* first two that start with a pipe
TableBodyLines(lines) ==
    LET ls == SelectSeq(Map(lines, LineText), LAMBDA l : Strip(l) # <<>>)
    IN  {k \in 3..Len(ls) : At(Strip(ls[k]), 1) = "|"}

\* the number of skipped lines the caller of parse_markdown_table is told: it returns
\* the records and nothing else
ReportedSkips == 0

\* a line that does not give the four cells
Malformed(line) == Len(parse_table_line(line)) # 4

\* C15: update_papers_md and clear_all_summaries write a malformed body line back as it
\* was, and every table row the site parser reads is either among the records the
\* caller gets or in a count of skipped lines the caller gets (no step of the three
\* raises on such a line: each of them is a step the ledger can take)
C15_MalformedKept ==
    [][/\ op' \in {"update_papers_md", "clear_all_summaries"} =>
             /\ Len(fileLines') = Len(fileLines)
             /\ \A k \in 3..Len(fileLines) :
                   Malformed(fileLines[k]) => fileLines'[k] = fileLines[k]
       /\ op' = "build_site" =>
             Len(returned') + ReportedSkips = Cardinality(TableBodyLines(fileLines))]_vars

\* the lines of papers.md that are not the two header lines
PrevBody == SelectSeq(fileLines, LAMBDA l : l \notin {four_header, four_sep})

\* C17: a crawler run that inserts n rows leaves the two header lines first, the n rows
\* directly after them in the order of the search, and after the rows every line that
\* was there before, unchanged and in its order; so the rows of a later run come
\* before the rows of every earlier run
C17_RowsAfterHeader ==
    [][(op' \in {"initialize", "run_daily"} /\ returned'[1] > 0) =>
          LET n == returned'[1]
          IN  /\ Len(fileLines') = 2 + n + Len(PrevBody)
              /\ fileLines'[1] = four_header /\ fileLines'[2] = four_sep
              /\ SubSeq(fileLines', 3 + n, Len(fileLines')) = PrevBody
              /\ \E found \in Strs(SearchResults, MaxFound) :
                    SubSeq(fileLines', 3, 2 + n)
                        = NewRows(_filter_categories(found),
                                  _load_existing_links(_ensure_md_header(papersMd)))]_vars

\* C16: for a text without a newline, the recovered text has no newline between a '**'
\* and the end of a numeral token (digits, a dot, whitespace) that follows it directly,
\* whatever the number of digits
C16_BoldNumeralWhole ==
    (rpc # "input" /\ ~HasNewline(text)) =>
        \A i \in 1..Len(fixed1) :
            (At(fixed1, i) = "*" /\ At(fixed1, i + 1) = "*") =>
                LET k == RunEnd(fixed1, i + 2, Digit \cup {NL})
                IN  (k > i + 2 /\ At(fixed1, k) = "." /\ At(fixed1, k + 1) \in Space)
                        => \A p \in (i + 2)..(k - 1) : fixed1[p] # NL

\* C14: build_data keeps length and order: the output is as long as the input, element
\* k has the date, title and link of record k, its summary_markdown is
\* auto_add_linebreaks of record k's payload and its summary_html the rendering of that;
\* nothing is sorted, merged, dropped or deduplicated
C14_BuildPreserves ==
    bpc = "done" =>
        /\ Len(dataOut) = Len(recordsIn)
        /\ \A k \in 1..Len(recordsIn) :
              /\ dataOut[k].date = recordsIn[k].date
              /\ dataOut[k].title = recordsIn[k].title
              /\ dataOut[k].link = recordsIn[k].link
              /\ dataOut[k].summary_markdown = auto_add_linebreaks(recordsIn[k].details_raw)
              /\ dataOut[k].summary_html = markdown_to_html(dataOut[k].summary_markdown)

\* two equal records whose payload the recovery changes have been built
C14_Witness ==
    /\ bpc = "done"
    /\ Len(recordsIn) = 2
    /\ recordsIn[1] = recordsIn[2]
    /\ Len(dataOut) = 2
    /\ dataOut[1].summary_markdown # recordsIn[1].details_raw

\* the tokens that open an emitted element
ElementOpeners == {"<h1>", "<h2 class=\"section-title\">", "<h3>", "<h4>", "<hr/>", "<li>", "<p>"}

\* the number of elements in the first n entries of html_lines
RECURSIVE ElementCount(_)
ElementCount(n) ==
    IF n = 0 THEN 0
    ELSE ElementCount(n - 1)
             + Cardinality({p \in 1..Len(htmlLines[n]) : htmlLines[n][p] \in ElementOpeners})

\* C20: markdown_to_html ends on every input without error and uses every line once.
\* The line index stays within the lines and every iteration so far has moved it on
\* by at least one (there are never more entries than lines passed), so the loop
\* ends; every non-blank line passed has given exactly one element (heading, rule,
\* list item or paragraph); the function returns only when all lines are passed, and
\* then with the text the loop built.
C20_EveryLineOnce ==
    /\ mpc \in {"loop", "done"} =>
          /\ mdIdx >= 1 /\ mdIdx <= Len(mdLines) + 1
          /\ Len(htmlLines) <= mdIdx - 1
          /\ ElementCount(Len(htmlLines))
                 = Cardinality({k \in 1..(mdIdx - 1) : ~IsBlank(k)})
    /\ mpc = "done" =>
          /\ mdIdx = Len(mdLines) + 1
          /\ htmlRet = Strip(Join(MergeBlank(htmlLines, FALSE), NL))

\* a text of a heading, a list of two items, a blank line and a paragraph has been rendered
C20_Witness ==
    /\ mpc = "done"
    /\ mdLines = <<<<"#", "#", " ", "a">>, <<"-", " ", "a">>, <<"*", " ", "x">>, <<"a">>>>
    /\ Len(htmlLines) = 3

----------------------------------------------------------------------------
(* clear_all_summaries on the ledger *)

\* a table row of four cells that is not the header row
FourFieldRow(line) ==
    At(Strip(line), 1) = "|" /\ Len(parse_table_line(line)) = 4 /\ line # four_header

\* the cell has a wrapper and the payload the site builder takes out of it has '##'
\* followed by whitespace
HasHeadingPayload(cell) ==
    /\ DetailsMatch(cell)[2] # 0
    /\ LET payload == extract_details(cell)
       IN  \E i \in 1..Len(payload) :
               payload[i] = "#" /\ At(payload, i + 1) = "#" /\ At(payload, i + 2) \in Space

\* a four-field row whose cell neither holds the placeholder text nor has a heading
ToReset(line) ==
    /\ FourFieldRow(line)
    /\ ~Includes(parse_table_line(line)[4], "PH")
    /\ ~HasHeadingPayload(parse_table_line(line)[4])

----------------------------------------------------------------------------
(* update_papers_md when it returns normally *)

\* the entries of entries_to_update for which the generator gave a text
GeneratedEntries == {k \in 1..Len(Entries) : ~updGen[k].raised /\ updGen[k].text # <<>>}

\* C21: when update_papers_md returns normally, papers.md holds the header lines and
\* the body in memory; in it the row of every entry for which a text was generated has
\* its date, title and link and the wrapped text as its cell, and every other line,
\* the row of an entry whose generation raised or gave nothing included, is as it was
\* read; the returned success count is the number of replaced rows and is at most the
\* returned need count.  This is so for every batch size and wherever a batch write
\* failed on the way.
C21_WrittenOnReturn ==
    upc = "returned" =>
        /\ updDisk = (IF Len(updLines) < 2 THEN updLines ELSE SubSeq(updLines, 1, 2) \o updBody)
        /\ Len(updDisk) = Len(updLines)
        /\ \A k \in GeneratedEntries :
              LET was == parse_table_line(updLines[2 + Entries[k].idx])
                  now == parse_table_line(updDisk[2 + Entries[k].idx])
              IN  /\ Len(now) = 4
                  /\ SubSeq(now, 1, 3) = SubSeq(was, 1, 3)
                  /\ now[4] = wrap_in_details(updGen[k].text)
        /\ \A j \in 1..Len(updLines) :
              (\A k \in GeneratedEntries : j # 2 + Entries[k].idx) => updDisk[j] = updLines[j]
        /\ \A k \in (1..Len(Entries)) \ GeneratedEntries :
              is_placeholder_summary(parse_table_line(updDisk[2 + Entries[k].idx])[4])
        /\ updRet[2] = Cardinality(GeneratedEntries)
        /\ updRet[1] = (IF Len(updLines) < 2 THEN 0 ELSE Len(Entries))
        /\ updRet[2] <= updRet[1]

\* update_papers_md has returned with a batch size of 1 after the write of the first
\* update failed (the counter was never set back) and the generator raised on the
\* second entry
C21_Witness ==
    /\ upc = "returned"
    /\ updBatch = 1
    /\ Len(Entries) = 2
    /\ ~updGen[1].raised /\ updGen[1].text # <<>>
    /\ updGen[2].raised
    /\ updates_since_last_write = 1
    /\ updRet = <<2, 1>>

=============================================================================
